---- MODULE Spec2Model ----
(***************************************************************************)
(* VoiceGuard adaptive risk-scoring engine.                                *)
(*                                                                         *)
(* State machine of core/learning_enhanced_analyzer.py                     *)
(* (LearningEnhancedAnalyzer: analysis, feedback, learning cycle, save and *)
(* load) and of the parts of app/modes/detection_mode.py that drive it     *)
(* (session table, SimpleFeedbackManager).                                 *)
(*                                                                         *)
(* Conventions                                                             *)
(*  - a text is a sequence of characters; " " is the only whitespace;      *)
(*  - a float is an exact rational [n |-> numerator, d |-> denominator],   *)
(*    d > 0, in lowest terms;                                              *)
(*  - a Python dict is a sequence of entries in insertion order;           *)
(*  - the Korean keyword constants of the source are replaced by short     *)
(*    Latin stand-ins, one stand-in per keyword the model uses.            *)
(***************************************************************************)
EXTENDS Integers, Sequences, FiniteSets, TLC

VARIABLES
    learning_examples,    \* self.learning_examples: the learning log
    adaptive_patterns,    \* self.adaptive_patterns: dict pattern_id -> pattern
    few_shot_pool,        \* self.few_shot_pool: category -> list of entries
    performance_tracker,  \* self.performance_tracker
    store,                \* the file data/learning_data.json
    session_results,      \* DetectionMode.session_results
    now,                  \* the wall clock read by datetime.now()
    cycles_started,       \* number of calls of _perform_learning_cycle so far
    call,                 \* the backend call an analyze() is suspended on
    cycle_pc,             \* the step a running learning cycle is about to take
    last,                 \* what the last operation returned to its caller
    analysis_queue,       \* DetectionMode.analysis_queue
    current_conversation, \* DetectionMode.current_conversation
    stt_thread            \* where the STT thread is in its callback

vars == <<learning_examples, adaptive_patterns, few_shot_pool,
          performance_tracker, store, session_results, now,
          cycles_started, call, cycle_pc, last,
          analysis_queue, current_conversation, stt_thread>>

engine == <<learning_examples, adaptive_patterns, few_shot_pool,
            performance_tracker>>

mode == <<analysis_queue, current_conversation, stt_thread>>

----------------------------------------------------------------------------
(* Bounds of the model.                                                    *)

MaxFeedback == 11      \* feedback submissions in one session
MaxWrong == 1          \* "wrong" answers among them
MaxAnalyses == 1       \* analyses in one session
MaxClock == 1          \* last clock value
MaxStoredPool == 10    \* longest stored pool category a restart will load
MaxLogLen == 3         \* length of a hand-built learning log
MaxCycles == 3         \* learning cycles run on a hand-built log
MaxSessionAnalyses == 2  \* analyses in a session that only analyses
MaxFaultyCycles == 1   \* learning cycles, failing or not, on a hand-built log
MaxPatterns == 3       \* adaptive patterns a store's life accumulates
MaxPoolLog == 6        \* length of a learning log given to the pool update
MaxVariedAnswers == 4  \* last answers of a session that are not all "1"
MaxQueueAnalyses == 11 \* analyses the worker starts in one session

----------------------------------------------------------------------------
(* Program constants.                                                      *)

learning_threshold == 10
min_examples_for_pattern == 3
max_few_shot_examples == 5
PoolCap == 10
MaxPoolAdditions == 5
TopKeywords == 10
MinKeywordFreq == 2
MinScamExamples == 3
PatternExamples == 3
TrendCap == 10
QueueMaxSize == 10
ConversationCap == 20

----------------------------------------------------------------------------
(* Exact arithmetic standing for the floats of the source.                 *)

RECURSIVE GCD(_, _)
GCD(a, b) ==
    IF b = 0 THEN a ELSE GCD(b, a % b)

Abs(x) ==
    IF x < 0 THEN -x ELSE x

R(n, d) ==
    LET g == GCD(Abs(n), d)
    IN  [n |-> n \div g, d |-> d \div g]

RAdd(x, y) ==
    R(x.n * y.d + y.n * x.d, x.d * y.d)

RMul(x, y) ==
    R(x.n * y.n, x.d * y.d)

RLt(x, y) ==
    x.n * y.d < y.n * x.d

RLe(x, y) ==
    x.n * y.d <= y.n * x.d

RMin(x, y) ==
    IF RLt(y, x) THEN y ELSE x

Zero == R(0, 1)
One == R(1, 1)
Half == R(1, 2)

----------------------------------------------------------------------------
(* Text: str.lower(), str.split(), the `in` substring test.                *)

LowerChar(c) ==
    CASE c = "F" -> "f"
      [] c = "S" -> "s"
      [] c = "M" -> "m"
      [] OTHER -> c

Lower(text) ==
    [i \in 1..Len(text) |-> LowerChar(text[i])]

RECURSIVE SplitFrom(_, _, _)
SplitFrom(text, i, word) ==
    IF i > Len(text)
    THEN IF word = <<>> THEN <<>> ELSE <<word>>
    ELSE IF text[i] = " "
         THEN (IF word = <<>> THEN <<>> ELSE <<word>>) \o SplitFrom(text, i + 1, <<>>)
         ELSE SplitFrom(text, i + 1, Append(word, text[i]))

Split(text) ==
    SplitFrom(text, 1, <<>>)

Range(s) ==
    {s[i] : i \in 1..Len(s)}

WordSet(text) ==
    Range(Split(Lower(text)))

Contains(text, kw) ==
    \E i \in 0..(Len(text) - Len(kw)) :
        \A j \in 1..Len(kw) : text[i + j] = kw[j]

Max(a, b) ==
    IF a >= b THEN a ELSE b

Min(a, b) ==
    IF a <= b THEN a ELSE b

RECURSIVE Join(_)
Join(words) ==
    IF words = <<>> THEN <<>>
    ELSE IF Len(words) = 1 THEN words[1]
    ELSE words[1] \o <<" ">> \o Join(Tail(words))

----------------------------------------------------------------------------
(* Vocabulary.  Stand-ins for the keywords of _categorize_example and the  *)
(* words of the built-in few-shot texts.                                   *)

w_fss == <<"f", "s", "s">>            \* stands for the authority keyword 1
w_pro == <<"p", "r", "o">>            \* stands for the authority keyword 2
w_pros == <<"p", "r", "o", "s">>      \* a word that contains w_pro
w_mom == <<"m", "o", "m">>            \* stands for the family keyword 1
w_er == <<"e", "r">>                  \* stands for the family keyword 5
w_hi == <<"h", "i">>
w_ac == <<"a", "c">>
w_loan == <<"l", "n">>
w_pay == <<"p", "y">>
w_box == <<"b", "x">>
w_zz == <<"z", "z">>
w_Fss == <<"F", "s", "s">>            \* w_fss with a capital

GovKeywords == <<w_fss, w_pro>>
FamilyKeywords == <<w_mom, w_er>>

Categories == <<"government_scam", "family_emergency", "legitimate_calls">>

Entry(text, label, reasoning, confidence) ==
    [text |-> text, label |-> label, reasoning |-> reasoning,
     confidence |-> confidence]

_initialize_few_shot_pool ==
    [c \in Range(Categories) |->
        CASE c = "government_scam" ->
                <<Entry(Join(<<w_hi, w_fss, w_ac>>), "scam", "builtin", R(95, 100)),
                  Entry(Join(<<w_pros, w_hi>>), "scam", "builtin", R(93, 100))>>
          [] c = "family_emergency" ->
                <<Entry(Join(<<w_mom, w_er, w_pay>>), "scam", "builtin", R(88, 100)),
                  Entry(Join(<<w_mom, w_pay>>), "scam", "builtin", R(91, 100))>>
          [] OTHER ->
                <<Entry(Join(<<w_hi, w_loan>>), "legitimate", "builtin", R(85, 100)),
                  Entry(Join(<<w_box, w_ac>>), "legitimate", "builtin", R(80, 100))>>]

----------------------------------------------------------------------------
(* Few-shot retrieval scorer.                                              *)

\* The pool as one list, categories in dict order, entries in list order.
RECURSIVE PoolList(_, _)
PoolList(pool, k) ==
    IF k > Len(Categories) THEN <<>>
    ELSE pool[Categories[k]] \o PoolList(pool, k + 1)

\* relevance_score = len(common_words) / max(len(text_words), len(example_words))
Relevance(text, example_text) ==
    LET tw == WordSet(text)
        ew == WordSet(example_text)
    IN  R(Cardinality(tw \cap ew), Max(Cardinality(tw), Cardinality(ew)))

\* list.sort(key=relevance_score, reverse=True): stable, descending.
RECURSIVE InsertByScore(_, _)
InsertByScore(sorted, e) ==
    IF sorted = <<>> THEN <<e>>
    ELSE IF RLt(Head(sorted).relevance_score, e.relevance_score)
         THEN <<e>> \o sorted
         ELSE <<Head(sorted)>> \o InsertByScore(Tail(sorted), e)

RECURSIVE SortByScore(_, _)
SortByScore(list, acc) ==
    IF list = <<>> THEN acc
    ELSE SortByScore(Tail(list), InsertByScore(acc, Head(list)))

Take(list, n) ==
    SubSeq(list, 1, Min(n, Len(list)))

RelevantOnly(list, text) ==
    SelectSeq([i \in 1..Len(list) |->
                  [example |-> list[i],
                   relevance_score |-> Relevance(text, list[i].text)]],
              LAMBDA e : RLt(R(1, 10), e.relevance_score))

\* _select_relevant_examples without the relevance threshold.
SelectWithoutThreshold(pool, text) ==
    Take(SortByScore([i \in 1..Len(PoolList(pool, 1)) |->
                         [example |-> PoolList(pool, 1)[i],
                          relevance_score |->
                              Relevance(text, PoolList(pool, 1)[i].text)]],
                     <<>>),
         max_few_shot_examples)

\* _select_relevant_examples without the sort: the first examples in pool order.
SelectUnsorted(pool, text) ==
    Take(RelevantOnly(PoolList(pool, 1), text), max_few_shot_examples)

_select_relevant_examples(pool, text) ==
    Take(SortByScore(RelevantOnly(PoolList(pool, 1), text), <<>>),
         max_few_shot_examples)

\* A reply of the model backend (result.content), or its failure.
Absent == [n |-> 0, d |-> 0]
t_scam == <<"s", "c", "a", "m">>
t_legitimate == <<"l", "e", "g", "i", "t", "i", "m", "a", "t", "e">>

Reply(kind, risk, conf, reasoning, text) ==
    [kind |-> kind, risk_score |-> risk, confidence |-> conf,
     reasoning |-> reasoning, text |-> text]

NoReply == Reply("none", Absent, Absent, FALSE, <<>>)

FewShot(conf, risk, class, reasoning, used, error, called) ==
    [confidence |-> conf, risk_score |-> risk, classification |-> class,
     reasoning |-> reasoning, examples_used |-> used, error |-> error,
     llm_called |-> called]

\* dict.get with 0 for every missing key.
GetOrZero(value, default) ==
    IF value = Absent THEN Zero ELSE value

Get(value, default) ==
    IF value = Absent THEN default ELSE value

\* _parse_few_shot_response on a reply that json.loads accepts as an object,
\* or rejects with JSONDecodeError.
_parse_few_shot_response(reply, used) ==
    IF reply.kind = "object"
    THEN FewShot(Get(reply.confidence, Half), Get(reply.risk_score, Half),
                 "parsed", IF reply.reasoning THEN "model" ELSE "", used, FALSE, TRUE)
    ELSE LET low == Lower(reply.text)
         IN  IF Contains(low, t_scam)
             THEN FewShot(Half, R(7, 10), "scam", "fallback", used, FALSE, TRUE)
             ELSE IF Contains(low, t_legitimate)
             THEN FewShot(Half, R(3, 10), "legitimate", "fallback", used, FALSE, TRUE)
             ELSE FewShot(Half, Half, "uncertain", "fallback", used, FALSE, TRUE)

\* _apply_few_shot_learning: no qualifying example -> no backend call; a
\* backend failure, or any exception of the parser, -> the error result, which
\* has no risk_score key.
_apply_few_shot_learning(pool, text, reply) ==
    LET relevant_examples == _select_relevant_examples(pool, text)
    IN  IF relevant_examples = <<>>
        THEN FewShot(Zero, Absent, "", "", 0, FALSE, FALSE)
        ELSE IF reply.kind \in {"raise", "non_object"}
        THEN FewShot(Zero, Absent, "", "", 0, TRUE, TRUE)
        ELSE _parse_few_shot_response(reply, Len(relevant_examples))

----------------------------------------------------------------------------
(* Adaptive pattern matcher.                                               *)

Pattern(id, keywords, rate, usage, updated, examples) ==
    [pattern_id |-> id, keywords |-> keywords, success_rate |-> rate,
     usage_count |-> usage, last_updated |-> updated, examples |-> examples]

PatternIds(table) ==
    {table[i].pattern_id : i \in 1..Len(table)}

\* sum(1 for keyword in pattern.keywords if keyword in text.lower())
KeywordMatches(pattern, text) ==
    Cardinality({i \in 1..Len(pattern.keywords) :
                    Contains(Lower(text), pattern.keywords[i])})

MatchScore(pattern, text) ==
    RMul(R(KeywordMatches(pattern, text), Len(pattern.keywords)),
         pattern.success_rate)

MatchedPatterns(table, text) ==
    SelectSeq([i \in 1..Len(table) |->
                  [pattern_id |-> table[i].pattern_id,
                   match_score |-> IF table[i].keywords = <<>> THEN Zero
                                   ELSE MatchScore(table[i], text),
                   keywords_matched |-> KeywordMatches(table[i], text)]],
              LAMBDA m : m.keywords_matched > 0)

RECURSIVE SumScores(_)
SumScores(matched) ==
    IF matched = <<>> THEN Zero
    ELSE RAdd(Head(matched).match_score, SumScores(Tail(matched)))

\* max(matched_patterns, key=match_score): the first of the maximal ones.
RECURSIVE BestOf(_, _)
BestOf(matched, best) ==
    IF matched = <<>> THEN best
    ELSE BestOf(Tail(matched),
                IF RLt(best.match_score, Head(matched).match_score)
                THEN Head(matched) ELSE best)

NoPattern == [pattern_id |-> [n |-> 0, date |-> 0], match_score |-> Zero,
              keywords_matched |-> 0]

\* The matcher without the cap min(total_confidence, 1.0).
MatchWithoutCap(table, text) ==
    LET matched == MatchedPatterns(table, text)
    IN  [confidence |-> SumScores(matched),
         matched_patterns |-> matched,
         best_pattern |-> IF matched = <<>> THEN NoPattern
                          ELSE BestOf(Tail(matched), Head(matched)),
         total_patterns_checked |-> Len(table)]

_apply_adaptive_patterns(table, text) ==
    LET matched == MatchedPatterns(table, text)
    IN  [confidence |-> RMin(SumScores(matched), One),
         matched_patterns |-> matched,
         best_pattern |-> IF matched = <<>> THEN NoPattern
                          ELSE BestOf(Tail(matched), Head(matched)),
         total_patterns_checked |-> Len(table)]

----------------------------------------------------------------------------
(* Fusion engine.                                                          *)

W_base == R(4, 10)
W_few_shot == R(4, 10)

\* A pattern weight of 0.3.
W_patternHeavy == R(3, 10)

W_pattern == R(2, 10)

\* The cut-point of "critical" taken exclusive.
RiskLevelExclusive(final_risk_score) ==
    IF RLt(R(8, 10), final_risk_score) THEN "critical"
    ELSE IF RLe(R(6, 10), final_risk_score) THEN "high"
    ELSE IF RLe(R(4, 10), final_risk_score) THEN "medium"
    ELSE "low"

RiskLevel(final_risk_score) ==
    IF RLe(R(8, 10), final_risk_score) THEN "critical"
    ELSE IF RLe(R(6, 10), final_risk_score) THEN "high"
    ELSE IF RLe(R(4, 10), final_risk_score) THEN "medium"
    ELSE "low"

\* The fragments joined by " | ", each named by its source; the generic string
\* when there is none.
_create_integrated_reasoning(base_result, few_shot_result, pattern_result) ==
    LET parts ==
            (IF base_result.reasoning THEN <<"base">> ELSE <<>>)
         \o (IF few_shot_result.reasoning # "" /\ few_shot_result.examples_used > 0
             THEN <<few_shot_result.reasoning>> ELSE <<>>)
         \o (IF pattern_result.best_pattern # NoPattern THEN <<"pattern">> ELSE <<>>)
    IN  IF parts = <<>> THEN <<"generic">> ELSE parts

_integrate_analysis_results(base_result, few_shot_result, pattern_result) ==
    LET base_score == Get(base_result.risk_score, Half)
        few_shot_score == Get(few_shot_result.risk_score, Half)
        pattern_score == pattern_result.confidence
        final_risk_score ==
            RAdd(RAdd(RMul(base_score, W_base), RMul(few_shot_score, W_few_shot)),
                 RMul(pattern_score, W_pattern))
        final_confidence ==
            RMul(RAdd(RAdd(Get(base_result.confidence, Half),
                           few_shot_result.confidence),
                      pattern_result.confidence),
                 R(1, 3))
    IN  [final_risk_score |-> final_risk_score,
         risk_level |-> RiskLevel(final_risk_score),
         confidence |-> final_confidence,
         reasoning |-> _create_integrated_reasoning(base_result, few_shot_result,
                                                    pattern_result),
         base_score |-> base_score,
         few_shot_score |-> few_shot_score,
         pattern_score |-> pattern_score]

\* hashlib.md5(f"{text}_{now.isoformat()}")[:12], taken to be injective.
_generate_analysis_id(text, t) ==
    [text |-> text, ts |-> t]

\* analyze_with_learning, up to the counter increment.
analyze_with_learning(pool, table, text, base_result, reply, t) ==
    LET few_shot_result == _apply_few_shot_learning(pool, text, reply)
        pattern_result == _apply_adaptive_patterns(table, text)
        integrated == _integrate_analysis_results(base_result, few_shot_result,
                                                  pattern_result)
    IN  [final_risk_score |-> integrated.final_risk_score,
         risk_level |-> integrated.risk_level,
         confidence |-> integrated.confidence,
         reasoning |-> integrated.reasoning,
         base_score |-> integrated.base_score,
         few_shot_score |-> integrated.few_shot_score,
         pattern_score |-> integrated.pattern_score,
         analysis_id |-> _generate_analysis_id(text, t),
         few_shot_applied |-> few_shot_result.examples_used > 0,
         examples_used |-> few_shot_result.examples_used,
         patterns_matched |-> Len(pattern_result.matched_patterns),
         best_pattern |-> pattern_result.best_pattern.pattern_id,
         few_shot_confidence |-> few_shot_result.confidence,
         llm_called |-> few_shot_result.llm_called,
         few_shot_error |-> few_shot_result.error,
         immediate_action |-> RLe(R(8, 10), integrated.final_risk_score)]

----------------------------------------------------------------------------
(* Learning loop.                                                          *)

LearningExample(text, actual_label, user_feedback, confidence) ==
    [text |-> text, actual_label |-> actual_label,
     user_feedback |-> user_feedback, confidence |-> confidence]

DateOf(t) ==
    t \div 2

\* Counter(all_words).most_common(10), then the words of frequency >= 2.
RECURSIVE AllWords(_)
AllWords(examples) ==
    IF examples = <<>> THEN <<>>
    ELSE Split(Lower(Head(examples).text)) \o AllWords(Tail(examples))

Count(w, words) ==
    Cardinality({i \in 1..Len(words) : words[i] = w})

RECURSIVE Distinct(_, _)
Distinct(words, seen) ==
    IF words = <<>> THEN <<>>
    ELSE IF Head(words) \in seen THEN Distinct(Tail(words), seen)
    ELSE <<Head(words)>> \o Distinct(Tail(words), seen \cup {Head(words)})

RECURSIVE InsertByFreq(_, _, _)
InsertByFreq(sorted, w, words) ==
    IF sorted = <<>> THEN <<w>>
    ELSE IF Count(Head(sorted), words) < Count(w, words)
         THEN <<w>> \o sorted
         ELSE <<Head(sorted)>> \o InsertByFreq(Tail(sorted), w, words)

RECURSIVE MostCommon(_, _, _)
MostCommon(distinct, acc, words) ==
    IF distinct = <<>> THEN acc
    ELSE MostCommon(Tail(distinct), InsertByFreq(acc, Head(distinct), words), words)

\* The ten most common words, whatever their frequency.
CommonKeywordsUnfiltered(scam_examples) ==
    Take(MostCommon(Distinct(AllWords(scam_examples), {}), <<>>,
                    AllWords(scam_examples)),
         TopKeywords)

CommonKeywords(scam_examples) ==
    LET all_words == AllWords(scam_examples)
        top == Take(MostCommon(Distinct(all_words, {}), <<>>, all_words), TopKeywords)
    IN  SelectSeq(top, LAMBDA w : Count(w, all_words) >= MinKeywordFreq)

\* self.adaptive_patterns[pattern_id] = new_pattern
PutPattern(table, p) ==
    IF p.pattern_id \in PatternIds(table)
    THEN [i \in 1..Len(table) |->
             IF table[i].pattern_id = p.pattern_id THEN p ELSE table[i]]
    ELSE Append(table, p)

\* _discover_new_patterns without the test "if common_keywords".
DiscoverWithoutKeywordTest(table, incorrect_examples, t) ==
    LET scam_examples ==
            SelectSeq(incorrect_examples, LAMBDA ex : ex.actual_label = "scam")
    IN  IF Len(incorrect_examples) < min_examples_for_pattern THEN table
        ELSE IF Len(scam_examples) < MinScamExamples THEN table
        ELSE PutPattern(table,
                 Pattern([n |-> Len(table) + 1, date |-> DateOf(t)],
                         CommonKeywords(scam_examples), R(7, 10), 0,
                         [kind |-> "datetime", t |-> t],
                         [i \in 1..Min(PatternExamples, Len(scam_examples)) |->
                             scam_examples[i].text]))

_discover_new_patterns(table, incorrect_examples, t) ==
    LET scam_examples ==
            SelectSeq(incorrect_examples, LAMBDA ex : ex.actual_label = "scam")
        common_keywords == CommonKeywords(scam_examples)
    IN  IF Len(incorrect_examples) < min_examples_for_pattern THEN table
        ELSE IF Len(scam_examples) < MinScamExamples THEN table
        ELSE IF common_keywords = <<>> THEN table
        ELSE PutPattern(table,
                 Pattern([n |-> Len(table) + 1, date |-> DateOf(t)],
                         common_keywords, R(7, 10), 0,
                         [kind |-> "datetime", t |-> t],
                         [i \in 1..Min(PatternExamples, Len(scam_examples)) |->
                             scam_examples[i].text]))

HasAny(text, keywords) ==
    \E i \in 1..Len(keywords) : Contains(Lower(text), keywords[i])

\* "" stands for None.
_categorize_example(example) ==
    IF HasAny(example.text, GovKeywords) THEN "government_scam"
    ELSE IF HasAny(example.text, FamilyKeywords) THEN "family_emergency"
    ELSE IF example.actual_label = "legitimate" THEN "legitimate_calls"
    ELSE ""

\* The selection with "confidence >= 0.8".
HighQualityInclusive(log) ==
    SelectSeq(log, LAMBDA ex : ex.user_feedback = "correct"
                               /\ RLe(R(8, 10), ex.confidence))

\* The cap test with <= for <.
HasRoomOffByOne(pool, category) ==
    Len(pool[category]) <= PoolCap

\* len(self.few_shot_pool[category]) < 10
HasRoom(pool, category) ==
    Len(pool[category]) < PoolCap

RECURSIVE AddExamples(_, _)
AddExamples(pool, examples) ==
    IF examples = <<>> THEN pool
    ELSE LET example == Head(examples)
             category == _categorize_example(example)
         IN  AddExamples(
                 IF category # "" /\ HasRoom(pool, category)
                 THEN [pool EXCEPT ![category] =
                          Append(@, Entry(example.text, example.actual_label,
                                          "user_verified", example.confidence))]
                 ELSE pool,
                 Tail(examples))

HighQuality(log) ==
    SelectSeq(log, LAMBDA ex : ex.user_feedback = "correct"
                               /\ RLt(R(8, 10), ex.confidence))

_update_few_shot_pool(pool, log) ==
    AddExamples(pool, Take(HighQuality(log), MaxPoolAdditions))

WrongCount(log) ==
    Cardinality({i \in 1..Len(log) : log[i].user_feedback = "wrong"})

CorrectCount(log) ==
    Cardinality({i \in 1..Len(log) : log[i].user_feedback = "correct"})

\* The cut that keeps the first n entries.
KeepFirst(list, n) ==
    IF Len(list) > n THEN SubSeq(list, 1, n) ELSE list

KeepLast(list, n) ==
    IF Len(list) > n THEN SubSeq(list, Len(list) - n + 1, Len(list)) ELSE list

_calculate_performance_metrics(tracker, log, t) ==
    IF log = <<>> THEN tracker
    ELSE [tracker EXCEPT !.accuracy_trend =
             KeepLast(Append(@, [accuracy |-> R(CorrectCount(log), Len(log)),
                                 total_examples |-> Len(log),
                                 timestamp |-> t]),
                      TrendCap)]

----------------------------------------------------------------------------
(* Persistence.                                                            *)

InitTracker ==
    [total_analyses |-> 0, user_feedback_count |-> 0, accuracy_trend |-> <<>>,
     learning_cycles |-> 0]

EmptyPool ==
    [c \in Range(Categories) |-> <<>>]

Engine(log, table, pool, tracker) ==
    [log |-> log, patterns |-> table, pool |-> pool, tracker |-> tracker]

\* __init__ before _load_existing_data
NewEngine ==
    Engine(<<>>, <<>>, _initialize_few_shot_pool, InitTracker)

Store(status, table, pool, tracker, count) ==
    [status |-> status, adaptive_patterns |-> table, few_shot_pool |-> pool,
     performance_tracker |-> tracker, learning_examples_count |-> count]

MissingStore == Store("missing", <<>>, EmptyPool, InitTracker, 0)

\* A file that json.load rejects: what an interrupted write leaves behind.
CorruptStore == Store("corrupt", <<>>, EmptyPool, InitTracker, 0)

\* The datetime written as its repr(), which fromisoformat rejects.
SerializeWithRepr(p) ==
    [p EXCEPT !.last_updated = [kind |-> "repr", t |-> p.last_updated.t]]

\* json.dump(asdict(pattern), default=str): the datetime becomes its str().
SerializePattern(p) ==
    [p EXCEPT !.last_updated = [kind |-> "str", t |-> p.last_updated.t]]

\* datetime.fromisoformat accepts what str(datetime) wrote.
ParsesAsDatetime(v) ==
    v.kind = "str"

DeserializePattern(d) ==
    [d EXCEPT !.last_updated = [kind |-> "datetime", t |-> d.last_updated.t]]

\* _save_learning_data: "ok" writes the whole file; "not_written" is an error
\* before open() (the file is untouched); "partial" is an error after open(.., 'w')
\* has truncated the file.  Every error is caught and logged.
_save_learning_data(eng, st, outcome) ==
    CASE outcome = "ok" ->
            Store("ok",
                  [i \in 1..Len(eng.patterns) |-> SerializePattern(eng.patterns[i])],
                  eng.pool, eng.tracker, Len(eng.log))
      [] outcome = "partial" -> CorruptStore
      [] OTHER -> st

\* The loop over data["adaptive_patterns"]: stops at the first entry that raises.
RECURSIVE LoadPatterns(_, _)
LoadPatterns(table, entries) ==
    IF entries = <<>> THEN [table |-> table, raised |-> FALSE]
    ELSE IF ~ParsesAsDatetime(Head(entries).last_updated)
         THEN [table |-> table, raised |-> TRUE]
         ELSE LoadPatterns(PutPattern(table, DeserializePattern(Head(entries))),
                           Tail(entries))

_load_existing_data(eng, st) ==
    IF st.status # "ok" THEN eng
    ELSE LET loaded == LoadPatterns(eng.patterns, st.adaptive_patterns)
         IN  IF loaded.raised
             THEN [eng EXCEPT !.patterns = loaded.table]
             ELSE Engine(eng.log,
                         loaded.table,
                         [c \in Range(Categories) |->
                             eng.pool[c] \o st.few_shot_pool[c]],
                         st.performance_tracker)

\* LearningEnhancedAnalyzer(llm_manager)
Construct(st) ==
    _load_existing_data(NewEngine, st)

----------------------------------------------------------------------------
(* The learning cycle and the feedback entry points.                       *)

\* The cycle without its try/except: only "no exception" ends normally.
CycleSwallowsNothing(fail) ==
    fail = "none"

\* try: ... except Exception: every exception of the cycle is swallowed.
CycleSwallows(fail) ==
    TRUE

\* _perform_learning_cycle.  fail names the step that raises ("none": no step
\* does); the steps before it have taken effect.  Returns the engine, the
\* store and whether the exception reaches the caller.
_perform_learning_cycle(eng, st, t, fail, save_outcome) ==
    LET incorrect_examples ==
            SelectSeq(eng.log, LAMBDA ex : ex.user_feedback = "wrong")
        e1 == [eng EXCEPT !.patterns =
                  _discover_new_patterns(eng.patterns, incorrect_examples, t)]
        e2 == [e1 EXCEPT !.pool = _update_few_shot_pool(e1.pool, e1.log)]
        e3 == [e2 EXCEPT !.tracker =
                  _calculate_performance_metrics(e2.tracker, e2.log, t)]
        s4 == _save_learning_data(e3, st, save_outcome)
        e5 == [e3 EXCEPT !.tracker.learning_cycles = @ + 1]
    IN  CASE fail = "discover" ->
                [eng |-> eng, store |-> st, raised |-> ~CycleSwallows(fail),
                 outcome |-> "failed"]
          [] fail = "pool" ->
                [eng |-> e1, store |-> st, raised |-> ~CycleSwallows(fail),
                 outcome |-> "failed"]
          [] fail = "metrics" ->
                [eng |-> e2, store |-> st, raised |-> ~CycleSwallows(fail),
                 outcome |-> "failed"]
          [] OTHER ->
                [eng |-> e5, store |-> s4, raised |-> FALSE,
                 outcome |-> "completed"]

\* if len(self.learning_examples) >= self.config["learning_threshold"]
CycleDue(log) ==
    Len(log) >= learning_threshold

\* learn_from_feedback: analysis_id is not looked up; text and confidence are
\* the placeholders "" and 0.0.
learn_from_feedback(eng, st, t, analysis_id, actual_label, user_feedback, fail, save) ==
    LET example == LearningExample(<<>>, actual_label, user_feedback, Zero)
        e1 == [eng EXCEPT !.log = Append(@, example),
                          !.tracker.user_feedback_count = @ + 1]
    IN  IF CycleDue(e1.log)
        THEN _perform_learning_cycle(e1, st, t, fail, save)
        ELSE [eng |-> e1, store |-> st, raised |-> FALSE, outcome |-> "none"]

----------------------------------------------------------------------------
(* What an operation hands back to its caller.                             *)

NoResult ==
    [final_risk_score |-> Zero, risk_level |-> "", confidence |-> Zero,
     reasoning |-> <<>>, base_score |-> Zero, few_shot_score |-> Zero,
     pattern_score |-> Zero, analysis_id |-> _generate_analysis_id(<<>>, 0),
     few_shot_applied |-> FALSE, examples_used |-> 0, patterns_matched |-> 0,
     best_pattern |-> NoPattern.pattern_id, few_shot_confidence |-> Zero,
     llm_called |-> FALSE, few_shot_error |-> FALSE, immediate_action |-> FALSE]

NoExample == LearningExample(<<>>, "", "", Zero)

Last(op, ok, known, cycle, save, log_before, count_before, submitted, result) ==
    [op |-> op, ok |-> ok, known |-> known, cycle |-> cycle, save |-> save,
     log_before |-> log_before, count_before |-> count_before,
     submitted |-> submitted, result |-> result]

SetEngine(eng) ==
    /\ learning_examples' = eng.log
    /\ adaptive_patterns' = eng.patterns
    /\ few_shot_pool' = eng.pool
    /\ performance_tracker' = eng.tracker

CurrentEngine ==
    Engine(learning_examples, adaptive_patterns, few_shot_pool, performance_tracker)

SessionIds ==
    {e.analysis_id : e \in session_results}

\* self.session_results[analysis_id] = {...}
Register(table, id, text) ==
    {e \in table : e.analysis_id # id} \cup {[analysis_id |-> id, text |-> text]}

----------------------------------------------------------------------------
(* Actions.                                                                *)

Tick ==
    /\ now < MaxClock
    /\ now' = now + 1
    /\ UNCHANGED mode
    /\ UNCHANGED <<learning_examples, adaptive_patterns, few_shot_pool,
                   performance_tracker, store, session_results,
                   cycles_started, call, cycle_pc, last>>

\* The STT thread outside its callback.
NoCallback ==
    [pc |-> "idle", text |-> <<>>, timestamp |-> 0]

\* No backend call in flight.
NoCall ==
    [state |-> "idle", text |-> <<>>,
     base_result |-> [risk_score |-> Zero, confidence |-> Zero, reasoning |-> FALSE],
     pool |-> EmptyPool, backend |-> "none", reply |-> NoReply]

\* The part of an analysis that follows the backend's answer: parsing,
\* pattern matching, fusion, the counter increment and the registration in
\* the session table.  pool is the pool the examples were selected from.
CompleteAnalysis(pool, text, base_result, reply) ==
    /\ LET result == analyze_with_learning(pool, adaptive_patterns, text,
                                           base_result, reply, now)
       IN  /\ performance_tracker' =
                 [performance_tracker EXCEPT !.total_analyses = @ + 1]
           /\ session_results' = Register(session_results, result.analysis_id, text)
           /\ last' = Last("analyze", TRUE, TRUE, "none", "none",
                           Len(learning_examples),
                           performance_tracker.user_feedback_count,
                           NoExample, result)
    /\ UNCHANGED <<learning_examples, adaptive_patterns, few_shot_pool, store,
                   now, cycles_started>>

\* DetectionMode._analyze_speech up to the feedback prompt: the engine's
\* analyze_with_learning, then the registration in the session table.
AnalyzeSpeech(text, base_result, reply) ==
    /\ CompleteAnalysis(few_shot_pool, text, base_result, reply)
    /\ UNCHANGED mode
    /\ UNCHANGED <<call, cycle_pc>>

\* SimpleFeedbackManager.submit_feedback -> learn_from_feedback.
submit_feedback(analysis_id, actual_label, user_feedback, fail, save_outcome) ==
    /\ LET r == learn_from_feedback(CurrentEngine, store, now, analysis_id,
                                    actual_label, user_feedback, fail, save_outcome)
       IN  /\ SetEngine(r.eng)
           /\ store' = r.store
           /\ cycles_started' =
                 IF r.outcome = "none" THEN cycles_started ELSE cycles_started + 1
           /\ last' = Last("feedback", ~r.raised, analysis_id \in SessionIds,
                           r.outcome,
                           IF r.outcome = "completed" THEN save_outcome ELSE "none",
                           Len(learning_examples),
                           performance_tracker.user_feedback_count,
                           LearningExample(<<>>, actual_label, user_feedback, Zero),
                           [NoResult EXCEPT !.analysis_id = analysis_id])
    /\ UNCHANGED mode
    /\ UNCHANGED <<session_results, now, call, cycle_pc>>

SubmitFeedback(analysis_id, actual_label, user_feedback, fail, save_outcome) ==
    /\ Len(learning_examples) < MaxFeedback
    /\ user_feedback = "wrong" => WrongCount(learning_examples) < MaxWrong
    /\ submit_feedback(analysis_id, actual_label, user_feedback, fail, save_outcome)

\* feedback_map; "" stands for an input that is not one of its keys.
feedback_map(user_input) ==
    CASE user_input = "1" -> "correct"
      [] user_input = "2" -> "wrong"
      [] user_input = "3" -> "uncertain"
      [] OTHER -> ""

\* The estimate with "scam" for every answer.
AlwaysScam(feedback) ==
    "scam"

\* actual_label = "scam" if feedback == "correct" else "legitimate"
EstimatedLabel(feedback) ==
    IF feedback = "correct" THEN "scam" ELSE "legitimate"

\* DetectionMode._request_user_feedback, the user's input (or the timeout)
\* having arrived: an input outside feedback_map submits nothing.
_request_user_feedback(analysis_id, user_input) ==
    IF feedback_map(user_input) = ""
    THEN /\ last' = Last("skip", TRUE, TRUE, "none", "none",
                         Len(learning_examples),
                         performance_tracker.user_feedback_count,
                         NoExample, NoResult)
         /\ UNCHANGED mode
         /\ UNCHANGED <<learning_examples, adaptive_patterns, few_shot_pool,
                        performance_tracker, store, session_results, now,
                        cycles_started, call, cycle_pc>>
    ELSE submit_feedback(analysis_id, EstimatedLabel(feedback_map(user_input)),
                         feedback_map(user_input), "none", "ok")

\* DetectionMode._cleanup_mode: the save at the end of a session.
CleanupSave(save_outcome) ==
    /\ store' = _save_learning_data(CurrentEngine, store, save_outcome)
    /\ last' = Last("save", TRUE, TRUE, "none", save_outcome,
                    Len(learning_examples),
                    performance_tracker.user_feedback_count, NoExample, NoResult)
    /\ UNCHANGED mode
    /\ UNCHANGED <<learning_examples, adaptive_patterns, few_shot_pool,
                   performance_tracker, session_results, now, cycles_started,
                   call, cycle_pc>>

\* The next run of the program: a new DetectionMode and a new engine, which
\* loads the store.
Restart ==
    /\ Len(store.few_shot_pool["government_scam"]) <= MaxStoredPool
    /\ SetEngine(Construct(store))
    /\ session_results' = {}
    /\ cycles_started' = 0
    /\ call' = NoCall
    /\ cycle_pc' = "idle"
    /\ last' = Last("restart", TRUE, TRUE, "none", "none", 0, 0, NoExample, NoResult)
    /\ analysis_queue' = <<>>
    /\ current_conversation' = <<>>
    /\ stt_thread' = NoCallback
    /\ UNCHANGED <<store, now>>

\* _perform_learning_cycle applied to the log as it stands.
LearningCycle(fail, save_outcome) ==
    /\ cycles_started < MaxCycles
    /\ LET r == _perform_learning_cycle(CurrentEngine, store, now, fail, save_outcome)
       IN  /\ SetEngine(r.eng)
           /\ store' = r.store
           /\ last' = Last("cycle", ~r.raised, TRUE, r.outcome,
                           IF r.outcome = "completed" THEN save_outcome ELSE "none",
                           Len(learning_examples),
                           performance_tracker.user_feedback_count,
                           NoExample, NoResult)
    /\ cycles_started' = cycles_started + 1
    /\ UNCHANGED mode
    /\ UNCHANGED <<session_results, now, call, cycle_pc>>

\* A log entry with its text and confidence filled in, as LearningExample allows.
AppendExample(example) ==
    /\ Len(learning_examples) < MaxLogLen
    /\ learning_examples' = Append(learning_examples, example)
    /\ last' = Last("append", TRUE, TRUE, "none", "none", Len(learning_examples),
                    performance_tracker.user_feedback_count, example, NoResult)
    /\ UNCHANGED mode
    /\ UNCHANGED <<adaptive_patterns, few_shot_pool, performance_tracker, store,
                   session_results, now, cycles_started, call, cycle_pc>>

----------------------------------------------------------------------------
(* Inputs.                                                                 *)

T_gov == Join(<<w_Fss, w_ac>>)
T_fam == Join(<<w_mom, w_er, w_pay>>)
T_none == Join(<<w_zz, w_zz>>)
T_mix == Join(<<w_fss, w_ac, w_pay>>)

Texts == {T_gov, T_fam, T_none, T_mix}

Base(risk, conf, reasoning) ==
    [risk_score |-> risk, confidence |-> conf, reasoning |-> reasoning]

\* The result of the base analysis: a risk and a confidence in [0,1].
BaseResults ==
    {Base(Zero, Zero, FALSE), Base(Half, One, TRUE), Base(One, One, TRUE),
     Base(One, Zero, FALSE), Base(R(2, 10), R(8, 10), TRUE)}

Replies ==
    {Reply("object", R(6, 10), R(9, 10), TRUE, <<>>),
     Reply("object", R(2, 1), R(2, 1), TRUE, <<>>),
     Reply("object", R(-1, 1), R(-1, 1), FALSE, <<>>),
     Reply("object", Absent, Absent, FALSE, <<>>),
     Reply("text", Absent, Absent, FALSE, <<"S", "c", "a", "m">>),
     Reply("text", Absent, Absent, FALSE, t_legitimate),
     Reply("text", Absent, Absent, FALSE, <<"h", "i">>),
     Reply("non_object", Absent, Absent, FALSE, <<>>),
     Reply("raise", Absent, Absent, FALSE, <<>>)}

\* What the feedback prompt of detection mode can submit.
FeedbackInputs ==
    {<<"scam", "correct">>, <<"legitimate", "wrong">>}

UnknownId == _generate_analysis_id(T_none, MaxClock + 1)

CycleFaults == {"none", "discover", "pool", "metrics"}
SaveOutcomes == {"ok", "not_written", "partial"}

\* Hand-built log entries.
ExampleKinds ==
    {LearningExample(Join(<<w_fss, w_ac>>), "scam", "correct", R(9, 10)),
     LearningExample(Join(<<w_mom, w_pay>>), "scam", "correct", R(9, 10)),
     LearningExample(Join(<<w_hi, w_box>>), "legitimate", "correct", R(85, 100)),
     LearningExample(Join(<<w_zz, w_ac>>), "scam", "correct", R(8, 10)),
     LearningExample(Join(<<w_zz, w_pay>>), "scam", "wrong", R(6, 10)),
     LearningExample(<<>>, "legitimate", "wrong", Zero)}

\* A text of eleven different words.
T_long ==
    Join(<<<<"a">>, <<"b">>, <<"c">>, <<"d">>, <<"e">>, <<"f">>, <<"g">>, <<"h">>,
           <<"i">>, <<"j">>, <<"k">>>>)

\* Hand-built log entries for pattern discovery: three kinds of misjudged
\* scam (two words, eleven words, no text), a misjudged legitimate call and a
\* confirmed authority scam.
DiscoveryKinds ==
    {LearningExample(Join(<<<<"a">>, w_zz>>), "scam", "wrong", R(6, 10)),
     LearningExample(T_long, "scam", "wrong", R(6, 10)),
     LearningExample(<<>>, "scam", "wrong", Zero),
     LearningExample(<<>>, "legitimate", "wrong", Zero),
     LearningExample(Join(<<w_fss, w_ac>>), "scam", "correct", R(9, 10))}

P1 == Pattern([n |-> 1, date |-> 0], <<w_fss, w_ac>>, R(7, 10), 0,
              [kind |-> "datetime", t |-> 0], <<T_gov>>)
P2 == Pattern([n |-> 2, date |-> 0], <<w_pay>>, One, 3,
              [kind |-> "datetime", t |-> 0], <<T_fam>>)

\* A store file that holds P1 and P2 and the built-in pool.
PatternStore ==
    Store("ok",
          <<[P1 EXCEPT !.last_updated = [kind |-> "str", t |-> 0]],
            [P2 EXCEPT !.last_updated = [kind |-> "str", t |-> 0]]>>,
          _initialize_few_shot_pool, InitTracker, 0)

\* A store file whose second pattern entry has a last_updated that
\* datetime.fromisoformat rejects.
MalformedStore ==
    Store("ok",
          <<[P1 EXCEPT !.last_updated = [kind |-> "str", t |-> 0]],
            [P2 EXCEPT !.last_updated = [kind |-> "repr", t |-> 0]]>>,
          _initialize_few_shot_pool, InitTracker, 0)

----------------------------------------------------------------------------
(* The engine under the asyncio event loop, its callers being tasks of one *)
(* loop: a coroutine keeps the loop until it awaits something that         *)
(* suspends.  analyze_with_learning suspends on the backend call; the      *)
(* learning cycle is taken step by step.                                   *)

\* What the backend does with a call: answer it (with a reply or an
\* exception), or never answer.
Backends == {"live", "silent"}

\* A learning cycle with a save that awaits its I/O.
SaveSuspends(pc) ==
    pc = "save"

\* Whether the cycle, about to take step pc, has handed the loop back: no step
\* of _perform_learning_cycle awaits anything but _discover_new_patterns,
\* which awaits nothing, and _save_learning_data writes synchronously.
CycleStepSuspends(pc) ==
    FALSE

LoopFree ==
    cycle_pc = "idle" \/ CycleStepSuspends(cycle_pc)

\* analyze_with_learning up to the await of the backend call, which is made
\* without a timeout; with no qualifying example the analysis completes at
\* once.
BeginAnalysis(text, base_result, backend) ==
    /\ LoopFree
    /\ call.state = "idle"
    /\ \/ /\ _select_relevant_examples(few_shot_pool, text) = <<>>
          /\ CompleteAnalysis(few_shot_pool, text, base_result, NoReply)
          /\ UNCHANGED <<call, cycle_pc>>
       \/ /\ _select_relevant_examples(few_shot_pool, text) # <<>>
          /\ call' = [state |-> "waiting", text |-> text,
                      base_result |-> base_result, pool |-> few_shot_pool,
                      backend |-> backend, reply |-> NoReply]
          /\ UNCHANGED <<learning_examples, adaptive_patterns, few_shot_pool,
                         performance_tracker, store, session_results, now,
                         cycles_started, cycle_pc, last>>

\* The loop, polling its I/O, finds the backend's answer (a reply or an
\* exception) and completes the awaited call with it.
BackendAnswers(reply) ==
    /\ LoopFree
    /\ call.state = "waiting"
    /\ call.backend = "live"
    /\ call' = [call EXCEPT !.state = "answered", !.reply = reply]
    /\ UNCHANGED mode
    /\ UNCHANGED <<learning_examples, adaptive_patterns, few_shot_pool,
                   performance_tracker, store, session_results, now,
                   cycles_started, cycle_pc, last>>

\* The suspended analysis is resumed and runs to its end.
ResumeAnalysis ==
    /\ LoopFree
    /\ call.state = "answered"
    /\ CompleteAnalysis(call.pool, call.text, call.base_result, call.reply)
    /\ call' = NoCall
    /\ UNCHANGED mode
    /\ UNCHANGED cycle_pc

\* asyncio.Queue(maxsize=10).put_nowait raises QueueFull on a full queue.
Full(queue) ==
    Len(queue) >= QueueMaxSize

\* if len(self.current_conversation) > 20: self.current_conversation.pop(0)
Trim(conversation) ==
    IF Len(conversation) > ConversationCap THEN Tail(conversation)
    ELSE conversation

SpeechData(text, timestamp) ==
    [text |-> text, timestamp |-> timestamp]

\* DetectionMode._process_user_input, a coroutine of the loop: the typed text
\* is queued and added to the conversation, or dropped when the queue is full.
_process_user_input(text) ==
    /\ LoopFree
    /\ IF Full(analysis_queue)
       THEN /\ last' = Last("typed", FALSE, TRUE, "none", "none",
                            Len(learning_examples),
                            performance_tracker.user_feedback_count,
                            NoExample, NoResult)
            /\ UNCHANGED <<analysis_queue, current_conversation>>
       ELSE /\ analysis_queue' = Append(analysis_queue, SpeechData(text, now))
            /\ current_conversation' =
                  Trim(Append(current_conversation, SpeechData(text, now)))
            /\ last' = Last("typed", TRUE, TRUE, "none", "none",
                            Len(learning_examples),
                            performance_tracker.user_feedback_count,
                            NoExample, NoResult)
    /\ UNCHANGED <<learning_examples, adaptive_patterns, few_shot_pool,
                   performance_tracker, store, session_results, now,
                   cycles_started, call, cycle_pc, stt_thread>>

\* DetectionMode._on_speech_detected, which the STT service calls on its own
\* thread: the loop may run between any two of its statements.  First the
\* test of put_nowait,
_on_speech_detected(text) ==
    /\ stt_thread.pc = "idle"
    /\ IF Full(analysis_queue)
       THEN /\ last' = Last("speech", FALSE, TRUE, "none", "none",
                            Len(learning_examples),
                            performance_tracker.user_feedback_count,
                            NoExample, NoResult)
            /\ UNCHANGED stt_thread
       ELSE /\ stt_thread' = [pc |-> "put", text |-> text, timestamp |-> now]
            /\ UNCHANGED last
    /\ UNCHANGED <<learning_examples, adaptive_patterns, few_shot_pool,
                   performance_tracker, store, session_results, now,
                   cycles_started, call, cycle_pc, analysis_queue,
                   current_conversation>>

\* then the insertion of put_nowait,
SpeechPut ==
    /\ stt_thread.pc = "put"
    /\ analysis_queue' =
          Append(analysis_queue, SpeechData(stt_thread.text, stt_thread.timestamp))
    /\ stt_thread' = [stt_thread EXCEPT !.pc = "append"]
    /\ UNCHANGED <<learning_examples, adaptive_patterns, few_shot_pool,
                   performance_tracker, store, session_results, now,
                   cycles_started, call, cycle_pc, last, current_conversation>>

\* then current_conversation.append,
SpeechAppend ==
    /\ stt_thread.pc = "append"
    /\ current_conversation' =
          Append(current_conversation,
                 SpeechData(stt_thread.text, stt_thread.timestamp))
    /\ stt_thread' = [stt_thread EXCEPT !.pc = "trim"]
    /\ UNCHANGED <<learning_examples, adaptive_patterns, few_shot_pool,
                   performance_tracker, store, session_results, now,
                   cycles_started, call, cycle_pc, last, analysis_queue>>

\* then the length test and pop(0).
SpeechTrim ==
    /\ stt_thread.pc = "trim"
    /\ current_conversation' = Trim(current_conversation)
    /\ stt_thread' = NoCallback
    /\ last' = Last("speech", TRUE, TRUE, "none", "none",
                    Len(learning_examples),
                    performance_tracker.user_feedback_count,
                    NoExample, NoResult)
    /\ UNCHANGED <<learning_examples, adaptive_patterns, few_shot_pool,
                   performance_tracker, store, session_results, now,
                   cycles_started, call, cycle_pc, analysis_queue>>

\* DetectionMode._analysis_worker: analysis_queue.get() returns the oldest
\* item and _analyze_speech runs up to its backend call.  The feedback prompt
\* that follows an analysis is left unanswered.
_analysis_worker(base_result, backend) ==
    /\ analysis_queue # <<>>
    /\ BeginAnalysis(Head(analysis_queue).text, base_result, backend)
    /\ analysis_queue' = Tail(analysis_queue)
    /\ UNCHANGED <<current_conversation, stt_thread>>

\* learn_from_feedback up to the call of _perform_learning_cycle.
BeginFeedback(analysis_id, actual_label, user_feedback) ==
    /\ LoopFree
    /\ Len(learning_examples) < MaxFeedback
    /\ learning_examples' =
          Append(learning_examples,
                 LearningExample(<<>>, actual_label, user_feedback, Zero))
    /\ performance_tracker' =
          [performance_tracker EXCEPT !.user_feedback_count = @ + 1]
    /\ cycle_pc' = IF CycleDue(learning_examples') THEN "discover" ELSE cycle_pc
    /\ last' = Last("feedback", TRUE, analysis_id \in SessionIds,
                    IF CycleDue(learning_examples') THEN "started" ELSE "none",
                    "none", Len(learning_examples),
                    performance_tracker.user_feedback_count,
                    LearningExample(<<>>, actual_label, user_feedback, Zero),
                    [NoResult EXCEPT !.analysis_id = analysis_id])
    /\ UNCHANGED mode
    /\ UNCHANGED <<adaptive_patterns, few_shot_pool, store, session_results, now,
                   cycles_started, call>>

\* Steps 1 and 2 of the cycle.
CycleDiscover ==
    /\ cycle_pc = "discover"
    /\ adaptive_patterns' =
          _discover_new_patterns(adaptive_patterns,
              SelectSeq(learning_examples, LAMBDA ex : ex.user_feedback = "wrong"),
              now)
    /\ cycle_pc' = "pool"
    /\ UNCHANGED mode
    /\ UNCHANGED <<learning_examples, few_shot_pool, performance_tracker, store,
                   session_results, now, cycles_started, call, last>>

\* Step 3.
CyclePool ==
    /\ cycle_pc = "pool"
    /\ few_shot_pool' = _update_few_shot_pool(few_shot_pool, learning_examples)
    /\ cycle_pc' = "metrics"
    /\ UNCHANGED mode
    /\ UNCHANGED <<learning_examples, adaptive_patterns, performance_tracker, store,
                   session_results, now, cycles_started, call, last>>

\* Step 4.
CycleMetrics ==
    /\ cycle_pc = "metrics"
    /\ performance_tracker' =
          _calculate_performance_metrics(performance_tracker, learning_examples, now)
    /\ cycle_pc' = "save"
    /\ UNCHANGED mode
    /\ UNCHANGED <<learning_examples, adaptive_patterns, few_shot_pool, store,
                   session_results, now, cycles_started, call, last>>

\* Step 5 and the increment of learning_cycles.
CycleSave(save_outcome) ==
    /\ cycle_pc = "save"
    /\ store' = _save_learning_data(CurrentEngine, store, save_outcome)
    /\ performance_tracker' =
          [performance_tracker EXCEPT !.learning_cycles = @ + 1]
    /\ cycle_pc' = "idle"
    /\ cycles_started' = cycles_started + 1
    /\ last' = Last("cycle", TRUE, TRUE, "completed", save_outcome,
                    Len(learning_examples),
                    performance_tracker.user_feedback_count, NoExample, NoResult)
    /\ UNCHANGED mode
    /\ UNCHANGED <<learning_examples, adaptive_patterns, few_shot_pool,
                   session_results, now, call>>

\* A step of the cycle raises: the except clause ends the cycle.
CycleRaises ==
    /\ cycle_pc \in {"discover", "pool", "metrics"}
    /\ cycle_pc' = "idle"
    /\ cycles_started' = cycles_started + 1
    /\ last' = Last("cycle", TRUE, TRUE, "failed", "none", Len(learning_examples),
                    performance_tracker.user_feedback_count, NoExample, NoResult)
    /\ UNCHANGED mode
    /\ UNCHANGED <<learning_examples, adaptive_patterns, few_shot_pool,
                   performance_tracker, store, session_results, now, call>>

----------------------------------------------------------------------------
(* Specifications.                                                         *)

InitWith(st, log) ==
    /\ store = st
    /\ learning_examples = log
    /\ adaptive_patterns = Construct(st).patterns
    /\ few_shot_pool = Construct(st).pool
    /\ performance_tracker = Construct(st).tracker
    /\ session_results = {}
    /\ now = 0
    /\ cycles_started = 0
    /\ call = NoCall
    /\ cycle_pc = "idle"
    /\ last = Last("init", TRUE, TRUE, "none", "none", 0, 0, NoExample, NoResult)
    /\ analysis_queue = <<>>
    /\ current_conversation = <<>>
    /\ stt_thread = NoCallback

\* One detection session on a machine without a store.
Init ==
    InitWith(MissingStore, <<>>)

Next ==
    \/ \E reply \in {Reply("object", R(6, 10), R(9, 10), TRUE, <<>>),
                     Reply("raise", Absent, Absent, FALSE, <<>>)} :
          /\ performance_tracker.total_analyses < MaxAnalyses
          /\ AnalyzeSpeech(T_gov, Base(Half, One, TRUE), reply)
    \/ \E id \in SessionIds \cup {UnknownId}, input \in FeedbackInputs :
          \/ /\ Len(learning_examples) + 1 < learning_threshold
             /\ SubmitFeedback(id, input[1], input[2], "none", "ok")
          \/ /\ Len(learning_examples) + 1 >= learning_threshold
             /\ \E fail \in CycleFaults, save_outcome \in SaveOutcomes :
                   SubmitFeedback(id, input[1], input[2], fail, save_outcome)

Spec == Init /\ [][Next]_vars

\* analyze() on every text, base result and backend reply.
InitAnalyze ==
    \E st \in {MissingStore, PatternStore} : InitWith(st, <<>>)

NextAnalyze ==
    \E text \in Texts, base_result \in BaseResults, reply \in Replies :
        /\ performance_tracker.total_analyses < MaxAnalyses
        /\ AnalyzeSpeech(text, base_result, reply)

SpecAnalyze == InitAnalyze /\ [][NextAnalyze]_vars

\* The learning cycle on hand-built logs.
InitLearn ==
    InitWith(MissingStore, <<>>)

NextLearn ==
    \/ \E example \in ExampleKinds : AppendExample(example)
    \/ LearningCycle("none", "ok")

SpecLearn == InitLearn /\ [][NextLearn]_vars

\* Sessions that end with a save, followed by restarts.
InitPersist ==
    \E st \in {MissingStore, PatternStore, MalformedStore} : InitWith(st, <<>>)

NextPersist ==
    \/ Tick
    \/ \E reply \in {Reply("object", R(6, 10), R(9, 10), TRUE, <<>>)} :
          /\ performance_tracker.total_analyses < MaxAnalyses
          /\ AnalyzeSpeech(T_mix, Base(Half, One, TRUE), reply)
    \/ \E save_outcome \in SaveOutcomes : CleanupSave(save_outcome)
    \/ Restart

SpecPersist == InitPersist /\ [][NextPersist]_vars

\* The learning cycle, with a step that may raise, on hand-built logs of
\* misjudged examples, over an empty table and over a loaded one.
InitDiscovery ==
    \E st \in {MissingStore, PatternStore} : InitWith(st, <<>>)

NextDiscovery ==
    \/ \E example \in DiscoveryKinds : AppendExample(example)
    \/ \E fail \in CycleFaults :
          /\ cycles_started < MaxFaultyCycles
          /\ LearningCycle(fail, "ok")

SpecDiscovery == InitDiscovery /\ [][NextDiscovery]_vars

\* The life of a store: sessions with an analysis, misjudged examples in the
\* log, learning cycles and closing saves whose write may fail, and the
\* restarts between the sessions.
InitLifecycle ==
    \E st \in {MissingStore, PatternStore} : InitWith(st, <<>>)

NextLifecycle ==
    \/ /\ performance_tracker.total_analyses < MaxAnalyses
       /\ AnalyzeSpeech(T_mix, Base(Half, One, TRUE),
                        Reply("object", R(6, 10), R(9, 10), TRUE, <<>>))
    \/ AppendExample(LearningExample(Join(<<<<"a">>, w_zz>>), "scam", "wrong", R(6, 10)))
    \/ \E save_outcome \in SaveOutcomes :
          /\ Len(adaptive_patterns) < MaxPatterns
          /\ Len(learning_examples) = MaxLogLen
          /\ LearningCycle("none", save_outcome)
    \/ \E save_outcome \in SaveOutcomes : CleanupSave(save_outcome)
    \/ Restart

SpecLifecycle == InitLifecycle /\ [][NextLifecycle]_vars

\* Log entries for the pool update: a confirmed authority scam and a confirmed
\* legitimate call of high confidence, a confirmed authority scam of
\* confidence exactly 0.8, and a misjudged family scam of high confidence.
PoolKinds ==
    {LearningExample(Join(<<w_fss, w_ac>>), "scam", "correct", R(9, 10)),
     LearningExample(Join(<<w_hi, w_box>>), "legitimate", "correct", R(85, 100)),
     LearningExample(Join(<<w_fss, w_pay>>), "scam", "correct", R(8, 10)),
     LearningExample(Join(<<w_mom, w_er>>), "scam", "wrong", R(9, 10))}

\* The learning cycle on every log of up to MaxPoolLog such entries.
InitPool ==
    \E n \in 0..MaxPoolLog : \E log \in [1..n -> PoolKinds] :
        InitWith(MissingStore, log)

NextPool ==
    /\ cycles_started < MaxFaultyCycles
    /\ LearningCycle("none", "ok")

SpecPool == InitPool /\ [][NextPool]_vars

\* The store of an engine that has run nine learning cycles, at its 10th to
\* 18th feedback submission, half of the answers being "correct".
TrendStore ==
    Store("ok", <<>>, _initialize_few_shot_pool,
          [InitTracker EXCEPT
              !.user_feedback_count = 18,
              !.learning_cycles = 8,
              !.accuracy_trend =
                  [k \in 1..9 |-> [accuracy |-> R((k + 9) \div 2, k + 9),
                                   total_examples |-> k + 9,
                                   timestamp |-> 0]]],
          18)

\* The entries learn_from_feedback writes: no text, confidence 0.0.
FeedbackKinds ==
    {LearningExample(<<>>, "scam", "correct", Zero),
     LearningExample(<<>>, "legitimate", "wrong", Zero)}

\* Learning cycles of an engine whose accuracy window is nearly full.  The
\* program starts a cycle only on a log that holds entries.
InitTrend ==
    InitWith(TrendStore, <<>>)

NextTrend ==
    \/ Tick
    \/ \E example \in FeedbackKinds : AppendExample(example)
    \/ /\ learning_examples # <<>>
       /\ LearningCycle("none", "ok")

SpecTrend == InitTrend /\ [][NextTrend]_vars

\* Texts for the example selection: one that shares a word with every built-in
\* example, and one with the words of a built-in example in another order
\* and repeated.
T_all == Join(<<w_hi, w_ac, w_pay, w_mom>>)
T_same == Join(<<w_ac, w_hi, w_Fss, w_hi>>)

SelectTexts == {T_gov, T_fam, T_none, T_mix, T_all, T_same}

\* Analyses over the built-in pool and over the pool an engine holds after
\* loading a store (the built-in examples twice).
InitSelect ==
    \E st \in {MissingStore, PatternStore} : InitWith(st, <<>>)

NextSelect ==
    \E text \in SelectTexts,
       reply \in {Reply("object", R(6, 10), R(9, 10), TRUE, <<>>),
                  Reply("raise", Absent, Absent, FALSE, <<>>)} :
        /\ performance_tracker.total_analyses < MaxSessionAnalyses
        /\ AnalyzeSpeech(text, Base(Half, One, TRUE), reply)

SpecSelect == InitSelect /\ [][NextSelect]_vars

\* The backend's content for a few-shot prompt: the replies above and the
\* JSON string "scam", which json.loads accepts and which is no object.
ReplyContents ==
    (Replies \ {Reply("raise", Absent, Absent, FALSE, <<>>)})
        \cup {Reply("non_object", Absent, Absent, FALSE, t_scam)}

\* Analyses whose backend call returns a content of any kind.
InitReplies ==
    InitWith(MissingStore, <<>>)

NextReplies ==
    \/ \E text \in Texts, base_result \in BaseResults :
          /\ performance_tracker.total_analyses < MaxAnalyses
          /\ BeginAnalysis(text, base_result, "live")
          /\ UNCHANGED mode
    \/ \E reply \in ReplyContents : BackendAnswers(reply)
    \/ ResumeAnalysis

SpecReplies == InitReplies /\ [][NextReplies]_vars

\* What the user can type at the feedback prompt.
UserInputs == {"1", "2", "3", ""}

\* A detection session in which every analysis is followed by its feedback
\* prompt, over an empty table and over a loaded one.
InitPrompt ==
    \E st \in {MissingStore, PatternStore} : InitWith(st, <<>>)

NextPrompt ==
    \/ /\ last.op # "analyze"
       /\ performance_tracker.total_analyses < MaxFeedback
       /\ AnalyzeSpeech(T_gov, Base(Half, One, TRUE),
                        Reply("object", R(6, 10), R(9, 10), TRUE, <<>>))
    \/ \E user_input \in UserInputs :
          /\ last.op = "analyze"
          /\ Len(learning_examples) < MaxFeedback
          /\ user_input # "1"
                => Len(learning_examples) >= MaxFeedback - MaxVariedAnswers
          /\ _request_user_feedback(last.result.analysis_id, user_input)

SpecPrompt == InitPrompt /\ [][NextPrompt]_vars

\* Detection mode with its two sources of input, the typed line and the STT
\* callback, and its analysis worker.
InitQueue ==
    InitWith(MissingStore, <<>>)

NextQueue ==
    \/ _process_user_input(T_gov)
    \/ _on_speech_detected(T_gov)
    \/ SpeechPut
    \/ SpeechAppend
    \/ SpeechTrim
    \/ \E backend \in Backends :
          /\ performance_tracker.total_analyses < MaxQueueAnalyses
          /\ _analysis_worker(Base(Half, One, TRUE), backend)
    \/ BackendAnswers(Reply("object", R(6, 10), R(9, 10), TRUE, <<>>))
    \/ ResumeAnalysis

SpecQueue == InitQueue /\ [][NextQueue]_vars

\* One session of analyses, the clock advancing or not between them.
InitSession ==
    InitWith(MissingStore, <<>>)

NextSession ==
    \/ Tick
    \/ \E text \in Texts,
          reply \in {Reply("object", R(6, 10), R(9, 10), TRUE, <<>>),
                     Reply("text", Absent, Absent, FALSE, t_legitimate)} :
          /\ performance_tracker.total_analyses < MaxSessionAnalyses
          /\ AnalyzeSpeech(text, Base(Half, One, TRUE), reply)

SpecSession == InitSession /\ [][NextSession]_vars

\* An analyze() caller and a submit_feedback() caller on one event loop.
InitTasks ==
    InitWith(MissingStore, <<>>)

BackendAnswersAny ==
    \E reply \in {Reply("object", R(6, 10), R(9, 10), TRUE, <<>>),
                   Reply("raise", Absent, Absent, FALSE, <<>>)} :
        BackendAnswers(reply)

NextTasks ==
    \/ \E text \in {T_gov, T_none}, backend \in Backends :
          /\ performance_tracker.total_analyses < MaxAnalyses
          /\ BeginAnalysis(text, Base(Half, One, TRUE), backend)
          /\ UNCHANGED mode
    \/ BackendAnswersAny
    \/ ResumeAnalysis
    \/ BeginFeedback(UnknownId, "scam", "correct")
    \/ CycleDiscover
    \/ CyclePool
    \/ CycleMetrics
    \/ \E save_outcome \in {"ok", "partial"} : CycleSave(save_outcome)
    \/ CycleRaises

SpecTasks == InitTasks /\ [][NextTasks]_vars

\* The loop completes a call the backend has answered, and runs a started
\* learning cycle on.
FairSpecTasks ==
    /\ SpecTasks
    /\ WF_vars(BackendAnswersAny)
    /\ WF_vars(CycleDiscover)
    /\ WF_vars(CyclePool)
    /\ WF_vars(CycleMetrics)
    /\ WF_vars(CycleSave("ok"))

----------------------------------------------------------------------------
(* Properties.                                                             *)

PoolWithinCap(pool) ==
    \A c \in Range(Categories) : Len(pool[c]) <= PoolCap

NoDuplicateIds(table) ==
    \A i, j \in 1..Len(table) :
        table[i].pattern_id = table[j].pattern_id => i = j

InUnit(x) ==
    RLe(Zero, x) /\ RLe(x, One)

NoQualifyingExample(pool, text) ==
    \A c \in Range(Categories) : \A i \in 1..Len(pool[c]) :
        ~RLt(R(1, 10), Relevance(text, pool[c][i].text))

\* C1: the number of learning cycles run equals the number of times the
\* count of feedback submissions has reached a multiple of learning_threshold:
\* one cycle at the 10th submission, none at the 11th to 19th.
C1_OneCyclePerThreshold ==
    cycles_started = performance_tracker.user_feedback_count \div learning_threshold

\* C2: a feedback submission whose analysis_id is not in the session table is
\* rejected and leaves the learning log and the feedback counter unchanged.
C2_UnknownIdRejected ==
    (last.op = "feedback" /\ ~last.known)
        => /\ ~last.ok
           /\ Len(learning_examples) = last.log_before
           /\ performance_tracker.user_feedback_count = last.count_before

\* C3: every analysis returns a final risk score and a confidence in [0,1].
C3_ScoresInUnitInterval ==
    last.op = "analyze"
        => InUnit(last.result.final_risk_score) /\ InUnit(last.result.confidence)

\* C4: after a learning cycle no few-shot pool category holds more than its
\* cap of entries, also when the log holds more qualifying examples than the
\* category has room for.
C4_CycleKeepsPoolCap ==
    last.op = "cycle" => PoolWithinCap(few_shot_pool)

\* C4 witness: the third cycle on a log of three qualifying authority
\* examples: the category held 8 entries and took only two of the three.
C4_Witness ==
    /\ last.op = "cycle"
    /\ cycles_started = 3
    /\ Len(learning_examples) = 3
    /\ \A i \in 1..3 : /\ _categorize_example(learning_examples[i]) = "government_scam"
                       /\ learning_examples[i].user_feedback = "correct"
                       /\ RLt(R(8, 10), learning_examples[i].confidence)
    /\ Len(few_shot_pool["government_scam"]) = PoolCap

\* C5: after the construction of an engine, which loads and merges the
\* store, no few-shot pool category holds more than its cap of entries.
C5_LoadKeepsPoolCap ==
    last.op = "restart" => PoolWithinCap(few_shot_pool)

\* C6: a successful save directly followed by the construction of a fresh
\* engine gives that engine every pattern identifier the saving engine held,
\* each once.
C6_RoundTripKeepsPatterns ==
    [][(last.op = "save" /\ last.save = "ok" /\ last'.op = "restart")
          => /\ PatternIds(adaptive_patterns) \subseteq PatternIds(adaptive_patterns')
             /\ NoDuplicateIds(adaptive_patterns')]_vars

\* C6 witness: a fresh engine holding two patterns loaded from a store that
\* was written during the run (it records the analysis made before the save).
C6_Witness ==
    /\ last.op = "restart"
    /\ Len(adaptive_patterns) = 2
    /\ store.status = "ok"
    /\ store.performance_tracker.total_analyses = 1

\* C7: when no pool entry has relevance above 0.1 for the text, the few-shot
\* scorer does not call the backend and reports confidence 0 and 0 examples.
C7_NoExampleNoBackendCall ==
    (last.op = "analyze"
     /\ NoQualifyingExample(few_shot_pool, last.result.analysis_id.text))
        => /\ ~last.result.llm_called
           /\ last.result.few_shot_confidence = Zero
           /\ last.result.examples_used = 0

\* C7 witness: the analysis of a text that shares no word with the pool.
C7_Witness ==
    /\ last.op = "analyze"
    /\ last.result.analysis_id.text = T_none
    /\ NoQualifyingExample(few_shot_pool, T_none)

\* C8: when the backend call fails the reasoning of the result notes that the
\* retrieval signal was unavailable.
C8_DegradedModeNoted ==
    (last.op = "analyze" /\ last.result.few_shot_error)
        => "retrieval_unavailable" \in Range(last.result.reasoning)

\* C9: when a step of the learning cycle raises, submit_feedback still
\* returns normally, and the feedback that triggered the cycle is the last
\* entry of the learning log and is counted.
C9_CycleFailureIsolated ==
    (last.op = "feedback" /\ last.cycle = "failed")
        => /\ last.ok
           /\ Len(learning_examples) = last.log_before + 1
           /\ learning_examples[Len(learning_examples)] = last.submitted
           /\ performance_tracker.user_feedback_count = last.count_before + 1

\* C9 witness: a submission whose learning cycle failed.
C9_Witness ==
    /\ last.op = "feedback"
    /\ last.cycle = "failed"
    /\ Len(learning_examples) >= learning_threshold

\* C10: a save that fails part-way leaves the store as it was.
C10_SaveIsAtomic ==
    [][last'.save = "partial" => store' = store]_vars

BadStore(st) ==
    \/ st.status # "ok"
    \/ \E i \in 1..Len(st.adaptive_patterns) :
          ~ParsesAsDatetime(st.adaptive_patterns[i].last_updated)

\* C11: the construction of an engine over a missing store, an unparseable
\* store or a store with a malformed pattern entry ends normally and leaves
\* the engine in its empty initial state: no adaptive pattern, the built-in
\* few-shot pool, zeroed performance counters.
C11_BadStoreLoadsEmpty ==
    (last.op = "restart" /\ BadStore(store))
        => /\ last.ok
           /\ CurrentEngine = NewEngine

\* final_risk = (4*base + 4*few_shot + 2*pattern) / 10, in integers.
IsWeightedSum(x, b, f, p) ==
    x.n * (10 * b.d * f.d * p.d)
        = x.d * (4 * b.n * f.d * p.d + 4 * f.n * b.d * p.d + 2 * p.n * b.d * f.d)

\* C12: the final risk score of every analysis is exactly
\* 0.4*base_risk + 0.4*fewshot_risk + 0.2*pattern_confidence; the triple
\* (0.2, 0.6, 1.0) gives 0.52 and the risk level medium.
C12_FusionWeightsExact ==
    last.op = "analyze"
        => LET r == last.result
           IN  /\ IsWeightedSum(r.final_risk_score, r.base_score,
                                r.few_shot_score, r.pattern_score)
               /\ (r.base_score = R(2, 10) /\ r.few_shot_score = R(6, 10)
                   /\ r.pattern_score = One)
                      => /\ r.final_risk_score = R(52, 100)
                         /\ r.risk_level = "medium"

\* C12 witness: an analysis with base risk 0.2, few-shot risk 0.6 and pattern
\* confidence 1.0.
C12_Witness ==
    /\ last.op = "analyze"
    /\ last.result.base_score = R(2, 10)
    /\ last.result.few_shot_score = R(6, 10)
    /\ last.result.pattern_score = One
    /\ last.result.llm_called

\* The level the cut-points 0.8, 0.6, 0.4 give, each inclusive below.
LevelOf(x) ==
    IF 10 * x.n >= 8 * x.d THEN "critical"
    ELSE IF 10 * x.n >= 6 * x.d THEN "high"
    ELSE IF 10 * x.n >= 4 * x.d THEN "medium"
    ELSE "low"

\* C13: the risk level of every analysis is critical from 0.8, high from 0.6
\* to below 0.8, medium from 0.4 to below 0.6 and low below 0.4, and
\* immediate_action is true exactly when the level is critical.
C13_RiskLevelCutPoints ==
    last.op = "analyze"
        => /\ last.result.risk_level = LevelOf(last.result.final_risk_score)
           /\ last.result.immediate_action <=> (last.result.risk_level = "critical")

\* C13 witness: an analysis whose final risk is exactly 0.8.
C13_Witness ==
    /\ last.op = "analyze"
    /\ last.result.final_risk_score = R(8, 10)
    /\ last.result.risk_level = "critical"
    /\ last.result.immediate_action

\* C14: within a session every analysis has an identifier of its own, also two
\* analyses of the same text at the same timestamp: the session table holds
\* one entry per analysis made.
C14_AnalysisIdsUnique ==
    Cardinality(session_results) = performance_tracker.total_analyses

\* C15: an accepted feedback submission for a registered analysis appends one
\* example to the learning log, whose text is the text registered under the
\* submitted analysis_id, and adds one to the feedback counter.
C15_FeedbackKeepsSessionText ==
    (last.op = "feedback" /\ last.ok /\ last.known)
        => /\ Len(learning_examples) = last.log_before + 1
           /\ performance_tracker.user_feedback_count = last.count_before + 1
           /\ \A e \in session_results :
                 e.analysis_id = last.result.analysis_id
                     => learning_examples[Len(learning_examples)].text = e.text

\* C16: a backend call an analysis waits on is eventually resolved, by the
\* backend's answer or, when the backend never answers, by a timeout: no
\* analysis waits for ever.
C16_BackendCallResolves ==
    (call.state = "waiting") ~> (call.state # "waiting")

\* C17: from the first to the last step of a learning cycle no step of
\* another operation is taken: no analysis starts, resumes or counts, no
\* feedback is appended or counted; the cycle's mutations are one section.
C17_CycleRunsAlone ==
    [][cycle_pc # "idle"
          => /\ call' = call
             /\ learning_examples' = learning_examples
             /\ session_results' = session_results
             /\ performance_tracker'.total_analyses
                    = performance_tracker.total_analyses
             /\ performance_tracker'.user_feedback_count
                    = performance_tracker.user_feedback_count]_vars

\* C17 witness: a learning cycle between its steps while an analysis whose
\* backend will answer is suspended on its call.
C17_Witness ==
    /\ cycle_pc = "save"
    /\ call.state = "waiting"
    /\ call.backend = "live"

WrongScam(log) ==
    SelectSeq(log, LAMBDA ex : ex.user_feedback = "wrong" /\ ex.actual_label = "scam")

Occurrences(w, examples) ==
    Count(w, AllWords(examples))

DiscoveryDue(log) ==
    /\ Len(WrongScam(log)) >= min_examples_for_pattern
    /\ \E w \in Range(AllWords(WrongScam(log))) : Occurrences(w, WrongScam(log)) >= 2

\* C19: a completed learning cycle adds a pattern exactly when the log holds
\* at least min_examples_for_pattern misjudged scam examples and a word occurs
\* twice or more in their texts; it then adds exactly one pattern, with
\* success_rate 0.7, usage_count 0 and between 1 and 10 keywords, each
\* occurring at least twice.
C19_PatternDiscoveredIff ==
    [][(cycles_started' = cycles_started + 1 /\ last'.cycle = "completed")
          => IF DiscoveryDue(learning_examples)
             THEN /\ Len(adaptive_patterns') = Len(adaptive_patterns) + 1
                  /\ SubSeq(adaptive_patterns', 1, Len(adaptive_patterns))
                         = adaptive_patterns
                  /\ LET p == adaptive_patterns'[Len(adaptive_patterns')]
                     IN  /\ p.success_rate = R(7, 10)
                         /\ p.usage_count = 0
                         /\ Len(p.keywords) \in 1..10
                         /\ \A i \in 1..Len(p.keywords) :
                               Occurrences(p.keywords[i],
                                           WrongScam(learning_examples)) >= 2
             ELSE adaptive_patterns' = adaptive_patterns]_vars

\* C19 witness: a completed cycle over misjudged scam examples with eleven
\* repeated words has created a pattern of ten keywords.
C19_Witness ==
    /\ last.op = "cycle"
    /\ last.cycle = "completed"
    /\ DiscoveryDue(learning_examples)
    /\ Cardinality(Range(AllWords(WrongScam(learning_examples)))) > TopKeywords
    /\ adaptive_patterns # <<>>
    /\ Len(adaptive_patterns[Len(adaptive_patterns)].keywords) = TopKeywords

C21_PatternsOnlyGrow ==
    [][/\ Len(adaptive_patterns) <= Len(adaptive_patterns')
       /\ SubSeq(adaptive_patterns', 1, Len(adaptive_patterns)) = adaptive_patterns
       /\ NoDuplicateIds(adaptive_patterns')]_vars

\* The part of C21 that concerns one engine: between two restarts the table
\* only grows, and under fresh identifiers.
C21_GrowsWithinSession ==
    [][last'.op # "restart"
          => /\ Len(adaptive_patterns) <= Len(adaptive_patterns')
             /\ SubSeq(adaptive_patterns', 1, Len(adaptive_patterns))
                    = adaptive_patterns
             /\ NoDuplicateIds(adaptive_patterns')]_vars

\* The entries a step appended to a category of the few-shot pool.
Appended(c) ==
    SubSeq(few_shot_pool'[c], Len(few_shot_pool[c]) + 1, Len(few_shot_pool'[c]))

RECURSIVE PoolSize(_, _)
PoolSize(pool, k) ==
    IF k > Len(Categories) THEN 0
    ELSE Len(pool[Categories[k]]) + PoolSize(pool, k + 1)

\* C22: every entry a learning cycle appends to the few-shot pool carries the
\* text, label and confidence of a log entry with user_feedback "correct" and
\* a confidence strictly above 0.8, the entries already in the pool stay, and
\* one cycle appends at most 5 entries over all categories.
C22_PoolAdditionsQualified ==
    [][cycles_started' = cycles_started + 1
          => /\ \A c \in Range(Categories) :
                   /\ Len(few_shot_pool[c]) <= Len(few_shot_pool'[c])
                   /\ SubSeq(few_shot_pool'[c], 1, Len(few_shot_pool[c]))
                          = few_shot_pool[c]
                   /\ \A k \in 1..Len(Appended(c)) :
                         \E i \in 1..Len(learning_examples) :
                            /\ learning_examples[i].text = Appended(c)[k].text
                            /\ learning_examples[i].actual_label = Appended(c)[k].label
                            /\ learning_examples[i].confidence = Appended(c)[k].confidence
                            /\ learning_examples[i].user_feedback = "correct"
                            /\ RLt(R(8, 10), learning_examples[i].confidence)
             /\ PoolSize(few_shot_pool', 1) - PoolSize(few_shot_pool, 1) <= 5]_vars

\* C22 witness: a cycle over a log with more than five qualifying entries has
\* appended exactly five, to two categories.
C22_Witness ==
    /\ last.op = "cycle"
    /\ last.cycle = "completed"
    /\ cycles_started = 1
    /\ Len(HighQuality(learning_examples)) > MaxPoolAdditions
    /\ PoolSize(few_shot_pool, 1) = PoolSize(_initialize_few_shot_pool, 1) + 5
    /\ Len(few_shot_pool["government_scam"]) > 2
    /\ Len(few_shot_pool["legitimate_calls"]) > 2

accuracy_trend ==
    performance_tracker.accuracy_trend

\* C23: a learning cycle that completes appends exactly one snapshot, whose
\* accuracy is (entries with feedback "correct") / (entries of the log); the
\* window then holds the previous snapshots followed by the new one, without
\* the oldest if that would make more than 10.
C23_AccuracyWindow ==
    [][(cycles_started' = cycles_started + 1 /\ last'.cycle = "completed")
          => LET new == performance_tracker'.accuracy_trend
                 snapshot == new[Len(new)]
             IN  /\ Len(new) <= 10
                 /\ new # <<>>
                 /\ snapshot.total_examples = Len(learning_examples)
                 /\ snapshot.accuracy.n * Len(learning_examples)
                        = CorrectCount(learning_examples) * snapshot.accuracy.d
                 /\ snapshot.accuracy.d > 0
                 /\ SubSeq(new, 1, Len(new) - 1)
                        = IF Len(accuracy_trend) < 10 THEN accuracy_trend
                          ELSE Tail(accuracy_trend)]_vars

\* C23 witness: the second cycle of an engine that started with nine
\* snapshots has dropped the oldest one and holds ten.
C23_Witness ==
    /\ last.op = "cycle"
    /\ last.cycle = "completed"
    /\ cycles_started = 2
    /\ Len(accuracy_trend) = 10
    /\ accuracy_trend[1].total_examples = 11
    /\ accuracy_trend[10].accuracy = R(1, 3)

\* The share of a pattern's keywords found in the lowercased text, times its
\* success rate; and the sum of the contributions of the first k patterns.
Contribution(p, text) ==
    LET found == {kw \in Range(p.keywords) : Contains(Lower(text), kw)}
        hits == Cardinality({i \in 1..Len(p.keywords) : p.keywords[i] \in found})
    IN  IF hits = 0 THEN Zero
        ELSE RMul(R(hits, Len(p.keywords)), p.success_rate)

RECURSIVE TotalContribution(_, _, _)
TotalContribution(table, text, k) ==
    IF k = 0 THEN Zero
    ELSE RAdd(TotalContribution(table, text, k - 1), Contribution(table[k], text))

\* C24: an analysis reports as pattern score min(1, sum of the patterns'
\* contributions) and as best pattern one of maximal contribution among those
\* with a keyword in the text; with no such pattern it reports no best
\* pattern and score 0; and it leaves the pattern table as it was.
C24_MatchResult ==
    [][last'.op = "analyze"
          => LET text == last'.result.analysis_id.text
                 total == TotalContribution(adaptive_patterns, text,
                                            Len(adaptive_patterns))
                 hit == {i \in 1..Len(adaptive_patterns) :
                            \E kw \in Range(adaptive_patterns[i].keywords) :
                               Contains(Lower(text), kw)}
             IN  /\ adaptive_patterns' = adaptive_patterns
                 /\ last'.result.patterns_matched = Cardinality(hit)
                 /\ last'.result.pattern_score
                        = IF RLt(One, total) THEN One ELSE total
                 /\ IF hit = {}
                    THEN /\ last'.result.best_pattern = NoPattern.pattern_id
                         /\ last'.result.pattern_score = Zero
                    ELSE \E i \in hit :
                            /\ last'.result.best_pattern
                                   = adaptive_patterns[i].pattern_id
                            /\ \A j \in hit :
                                  RLe(Contribution(adaptive_patterns[j], text),
                                      Contribution(adaptive_patterns[i], text))]_vars

\* C24 witness: an analysis of a text that holds every keyword of P1 and of
\* P2: the contributions 0.7 and 1.0 are capped to 1, and P2 is the best.
C24_Witness ==
    /\ last.op = "analyze"
    /\ last.result.patterns_matched = 2
    /\ last.result.pattern_score = One
    /\ last.result.best_pattern = P2.pattern_id
    /\ RLt(One, TotalContribution(adaptive_patterns, last.result.analysis_id.text,
                                  Len(adaptive_patterns)))

\* The lowercase words of a text, and |common words| / max(|words|, |words|)
\* stated on a rational x.
WordsOf(text) ==
    Range(Split(Lower(text)))

IsRelevanceOf(x, text, example_text) ==
    LET a == Cardinality(WordsOf(text))
        b == Cardinality(WordsOf(example_text))
    IN  /\ x.d > 0
        /\ x.n * (IF a >= b THEN a ELSE b)
              = Cardinality(WordsOf(text) \cap WordsOf(example_text)) * x.d

\* The pool entries whose relevance to the text is above 0.1.
RelevantEntries(pool, text) ==
    {i \in 1..Len(PoolList(pool, 1)) :
        LET a == Cardinality(WordsOf(text))
            b == Cardinality(WordsOf(PoolList(pool, 1)[i].text))
        IN  10 * Cardinality(WordsOf(text) \cap WordsOf(PoolList(pool, 1)[i].text))
               > (IF a >= b THEN a ELSE b)}

\* C25: the examples selected for an analysed text are pool entries of
\* relevance |common words| / max(|text words|, |example words|) strictly
\* above 0.1, in non-increasing order of relevance, min(5, number of such
\* entries) of them, none left out being more relevant than one selected;
\* and an example with the word set of the text has relevance 1.
C25_SelectionByRelevance ==
    last.op = "analyze"
        => LET text == last.result.analysis_id.text
               list == PoolList(few_shot_pool, 1)
               selected == _select_relevant_examples(few_shot_pool, text)
           IN  /\ ~last.result.few_shot_error
                     => last.result.examples_used = Len(selected)
               /\ Len(selected) <= 5
               /\ Len(selected)
                     = Min(max_few_shot_examples,
                           Cardinality(RelevantEntries(few_shot_pool, text)))
               /\ \A k \in 1..Len(selected) :
                     /\ \E i \in RelevantEntries(few_shot_pool, text) :
                           list[i] = selected[k].example
                     /\ IsRelevanceOf(selected[k].relevance_score, text,
                                      selected[k].example.text)
                     /\ RLt(R(1, 10), selected[k].relevance_score)
                     /\ WordsOf(text) = WordsOf(selected[k].example.text)
                           => selected[k].relevance_score = One
                     /\ k > 1 => RLe(selected[k].relevance_score,
                                     selected[k - 1].relevance_score)
               /\ \A i \in RelevantEntries(few_shot_pool, text) :
                     \/ \E k \in 1..Len(selected) : selected[k].example = list[i]
                     \/ \A k \in 1..Len(selected) :
                           \A x \in {R(n, d) : n \in 0..4, d \in 1..4} :
                              IsRelevanceOf(x, text, list[i].text)
                                 => RLe(x, selected[k].relevance_score)

\* C25 witness: an analysis of a text with more than five relevant examples,
\* one of them with the word set of the text, has used five.
C25_Witness ==
    /\ last.op = "analyze"
    /\ last.result.examples_used = 5
    /\ Cardinality(RelevantEntries(few_shot_pool, last.result.analysis_id.text)) > 5
    /\ \E i \in 1..Len(PoolList(few_shot_pool, 1)) :
          WordsOf(PoolList(few_shot_pool, 1)[i].text)
             = WordsOf(last.result.analysis_id.text)

\* C26: whatever content the backend returns, the few-shot step ends without
\* an error; a content that is not a JSON object gives the fallback result:
\* confidence 0.5 and the risk of the classification found by substring
\* match ("scam" 0.7, "legitimate" 0.3, otherwise 0.5).
C26_ParseAlwaysFallsBack ==
    [][(call.state = "answered" /\ last'.op = "analyze")
          => /\ ~last'.result.few_shot_error
             /\ call.reply.kind # "object"
                   => /\ last'.result.few_shot_confidence = Half
                      /\ last'.result.few_shot_score
                            = IF Contains(Lower(call.reply.text), t_scam)
                              THEN R(7, 10)
                              ELSE IF Contains(Lower(call.reply.text), t_legitimate)
                              THEN R(3, 10)
                              ELSE Half]_vars

\* The part of C26 that concerns a content json.loads rejects.
C26_TextFallsBack ==
    [][(call.state = "answered" /\ last'.op = "analyze" /\ call.reply.kind = "text")
          => /\ ~last'.result.few_shot_error
             /\ last'.result.few_shot_confidence = Half
             /\ last'.result.few_shot_score
                   = IF Contains(Lower(call.reply.text), t_scam) THEN R(7, 10)
                     ELSE IF Contains(Lower(call.reply.text), t_legitimate)
                     THEN R(3, 10)
                     ELSE Half]_vars

\* C27: after a learning cycle that completed and whose save succeeded, the
\* store holds the in-memory learning_cycles counter, and an engine built on
\* the store starts with that count.
C27_StoredCycleCount ==
    (last.cycle = "completed" /\ last.save = "ok")
        => /\ store.status = "ok"
           /\ store.performance_tracker.learning_cycles
                  = performance_tracker.learning_cycles
           /\ Construct(store).tracker.learning_cycles
                  = performance_tracker.learning_cycles

\* C28: an analysis whose few-shot step returned no risk score (no relevant
\* example, or a failed backend call) is fused with a few-shot risk of 0.5 and
\* a few-shot confidence of 0, and its final risk is at least 0.2.
C28_NeutralFewShotRisk ==
    (last.op = "analyze" /\ (~last.result.llm_called \/ last.result.few_shot_error))
        => /\ last.result.few_shot_score = Half
           /\ last.result.few_shot_confidence = Zero
           /\ RLe(R(2, 10), last.result.final_risk_score)

\* C28 witness: an analysis with base risk 0, no matching pattern and a failed
\* backend call has the final risk 0.2 exactly.
C28_Witness ==
    /\ last.op = "analyze"
    /\ last.result.few_shot_error
    /\ last.result.base_score = Zero
    /\ last.result.pattern_score = Zero
    /\ last.result.final_risk_score = R(2, 10)

\* C29: in a session driven by the feedback prompt every log entry pairs
\* "correct" with the label "scam" and "wrong" or "uncertain" with
\* "legitimate", so no entry is a misjudged scam, and no step (a learning
\* cycle included) changes the table of adaptive patterns.
C29_PromptPairsLabels ==
    [][/\ \A i \in 1..Len(learning_examples') :
             LET ex == learning_examples'[i]
             IN  /\ ex.user_feedback \in {"correct", "wrong", "uncertain"}
                 /\ ex.user_feedback = "correct" => ex.actual_label = "scam"
                 /\ ex.user_feedback \in {"wrong", "uncertain"}
                       => ex.actual_label = "legitimate"
                 /\ ~(ex.user_feedback = "wrong" /\ ex.actual_label = "scam")
       /\ adaptive_patterns' = adaptive_patterns]_vars

\* C29 witness: a completed learning cycle over a log with enough "wrong"
\* answers for the pattern discovery to look at them, and an "uncertain" one.
C29_Witness ==
    /\ last.op = "feedback"
    /\ last.cycle = "completed"
    /\ WrongCount(learning_examples) >= min_examples_for_pattern
    /\ \E i \in 1..Len(learning_examples) :
          learning_examples[i].user_feedback = "uncertain"

\* A step of _process_user_input: it reports a typed input and moves neither
\* the worker nor the STT thread.
TypedStep ==
    /\ last'.op = "typed"
    /\ call' = call
    /\ stt_thread' = stt_thread

\* C30: in detection mode the analysis queue never holds more than 10 items
\* and, between two callbacks, current_conversation never more than 20
\* entries; a typed input that finds the queue full leaves the queue and the
\* conversation as they were.
C30_QueueAndConversationBounded ==
    [][/\ Len(analysis_queue') <= 10
       /\ stt_thread'.pc = "idle" => Len(current_conversation') <= 20
       /\ (TypedStep /\ Len(analysis_queue) >= 10)
             => /\ analysis_queue' = analysis_queue
                /\ current_conversation' = current_conversation]_vars

\* The parts of C30 that do not depend on the interleaving of the STT thread
\* with the loop: the cap of the conversation, and the drop of a typed input
\* on a full queue.
C30_ConversationCapped ==
    [][/\ stt_thread'.pc = "idle" => Len(current_conversation') <= 20
       /\ (TypedStep /\ ~last'.ok)
             => /\ Len(analysis_queue) >= 10
                /\ analysis_queue' = analysis_queue
                /\ current_conversation' = current_conversation]_vars

====
